---- MODULE Spec2Model ----
(***************************************************************************)
(* Model of rs-glibc (src/src/lib.rs): the FileHandle ownership token and  *)
(* the four wrappers dlopen, dlclose, dlsym and dlerror over the native    *)
(* loader entry points _dlopen, _dlclose, _dlsym and _dlerror.             *)
(*                                                                         *)
(* The native entry points are extern functions; they are modelled as a    *)
(* recording test double whose return values are chosen                    *)
(* nondeterministically and whose last-error slot follows the platform     *)
(* convention (set by a failing call, read-and-cleared by _dlerror).       *)
(* Each wrapper makes at most one native call, so one wrapper call is one  *)
(* atomic step of the calling thread.                                      *)
(***************************************************************************)
EXTENDS Integers, Sequences, FiniteSets, TLC

VARIABLES
    handles,    \* the live FileHandle bindings
    created,    \* number of FileHandle values constructed so far
    calls,      \* number of native calls the test double has recorded
    pending,    \* the process-wide last-error slot of the native loader
    closedToks, \* history: handle tokens passed to native close
    own,        \* history: per thread, what its last native call left pending
    op          \* the wrapper call performed by the last step and its result

vars == <<handles, created, calls, pending, closedToks, own, op>>

----------------------------------------------------------------------------
\* Bounds of the exploration

MaxCalls == 3
MaxHandles == 2

----------------------------------------------------------------------------
\* Values

NULL == 0
Ptrs == {1, 2}                       \* non-null opaque pointers
Threads == {1, 2}
Statuses == {0, 0 - 1, 1}            \* c_int results of _dlclose

RTLD_LAZY == 1
RTLD_NOW == 2
RTLD_GLOBAL == 256
Unrecognised == RTLD_NOW + 16384     \* carries a bit outside the recognised flags
FlagValues == {RTLD_LAZY, RTLD_NOW + RTLD_GLOBAL, Unrecognised}

\* &str inputs as byte strings; 0 is the null byte
StrInputs == {<<>>, <<108>>, <<108, 0, 98>>}

\* a *const c_char: the null pointer, or a pointer to bytes ending in 0
NullStr == [null |-> TRUE, bytes |-> <<>>]
CStrPtr(b) == [null |-> FALSE, bytes |-> b]

\* messages the native loader may leave in its last-error slot
ErrMsgs == {CStrPtr(<<101, 0>>), CStrPtr(<<195, 169, 0>>), CStrPtr(<<195, 40, 0>>)}

----------------------------------------------------------------------------
\* std conversions used by the wrappers

HasNul(s) == \E i \in 1..Len(s) : s[i] = 0

\* CString::new: refuses interior null bytes, otherwise appends the terminator
CString_new(s) ==
    IF HasNul(s) THEN [ok |-> FALSE, value |-> <<>>]
    ELSE [ok |-> TRUE, value |-> Append(s, 0)]

\* CStr::from_ptr: the bytes up to, not including, the first null byte
RECURSIVE UpToNul(_)
UpToNul(b) ==
    IF b = <<>> \/ Head(b) = 0 THEN <<>>
    ELSE <<Head(b)>> \o UpToNul(Tail(b))

CStr_from_ptr(p) == UpToNul(p.bytes)

IsCont(c) == c \in 128..191

\* CStr::to_str: UTF-8 validation of the bytes
RECURSIVE Utf8Valid(_)
Utf8Valid(b) ==
    IF b = <<>> THEN TRUE
    ELSE LET c == Head(b)
             n == Len(b)
         IN  IF c < 128 THEN Utf8Valid(Tail(b))
             ELSE IF c \in 194..223
                  THEN n >= 2 /\ IsCont(b[2]) /\ Utf8Valid(SubSeq(b, 3, n))
             ELSE IF c \in 224..239
                  THEN /\ n >= 3
                       /\ IsCont(b[2]) /\ IsCont(b[3])
                       /\ (c = 224 => b[2] >= 160)
                       /\ (c = 237 => b[2] <= 159)
                       /\ Utf8Valid(SubSeq(b, 4, n))
             ELSE IF c \in 240..244
                  THEN /\ n >= 4
                       /\ IsCont(b[2]) /\ IsCont(b[3]) /\ IsCont(b[4])
                       /\ (c = 240 => b[2] >= 144)
                       /\ (c = 244 => b[2] <= 143)
                       /\ Utf8Valid(SubSeq(b, 5, n))
             ELSE FALSE

----------------------------------------------------------------------------
\* The native layer (test double)

Budget == calls < MaxCalls

NoCall == <<>>
Call(fn, ptr, str, flags, ret, rstr) ==
    <<[fn |-> fn, ptr |-> ptr, str |-> str, flags |-> flags, ret |-> ret, rstr |-> rstr]>>

\* last-error slot after a native call other than _dlerror
SlotAfter(failed) == IF failed THEN ErrMsgs ELSE {pending, NullStr}

\* history kept per thread about the slot
OwnAfter(t, set, p) ==
    [u \in Threads |->
        IF u = t THEN [set |-> set, p |-> IF set THEN p ELSE NullStr, clean |-> TRUE]
        ELSE [own[u] EXCEPT !.clean = FALSE]]

----------------------------------------------------------------------------
\* FileHandle

\* handles holds the live bindings only; a binding that was moved from, closed
\* or dropped is gone.  val is the _private field.  tok identifies the handle
\* across moves; origin is the serial number of the native open call it came
\* from (0 for FileHandle::invalid) and nret what that call returned (history).
\* A FileHandle holds a raw pointer, so it is neither Send nor Sync: only the
\* thread that made it (owner) can use it.
Idx == 1..Len(handles)
LiveOf(t) == {i \in Idx : handles[i].owner = t}

Binding(tok, val, origin, nret, t) ==
    [tok |-> tok, val |-> val, origin |-> origin, nret |-> nret, owner |-> t]

NoHandle == Binding(0, NULL, 0, NULL, 0)

Remove(s, i) == SubSeq(s, 1, i - 1) \o SubSeq(s, i + 1, Len(s))

Result(t, name, str, flags, h, res, val, txt, ncalls) ==
    [t |-> t, name |-> name, str |-> str, flags |-> flags, h |-> h, res |-> res,
     val |-> val, txt |-> txt, ncalls |-> ncalls, exp |-> own[t]]

Init ==
    /\ handles = <<>>
    /\ created = 0
    /\ calls = 0
    /\ pending = NullStr
    /\ closedToks = {}
    /\ own = [t \in Threads |-> [set |-> FALSE, p |-> NullStr, clean |-> TRUE]]
    /\ op = [t |-> 1, name |-> "init", str |-> <<>>, flags |-> 0, h |-> NoHandle,
             res |-> "None", val |-> 0, txt |-> <<>>, ncalls |-> NoCall,
             exp |-> [set |-> FALSE, p |-> NullStr, clean |-> TRUE]]

\* FileHandle::invalid
invalid(t) ==
    /\ created < MaxHandles
    /\ created' = created + 1
    /\ handles' = Append(handles, Binding(created + 1, NULL, 0, NULL, t))
    /\ op' = Result(t, "invalid", <<>>, 0, Binding(created + 1, NULL, 0, NULL, t),
                    "Handle", NULL, <<>>, NoCall)
    /\ UNCHANGED <<calls, pending, closedToks, own>>

\* is_valid with the null test the wrong way round
is_valid_inverted(t, h) ==
    /\ h \in LiveOf(t)
    /\ op' = Result(t, "is_valid", <<>>, 0, handles[h], "Bool",
                    IF handles[h].val = NULL THEN 1 ELSE 0, <<>>, NoCall)
    /\ UNCHANGED <<handles, created, calls, pending, closedToks, own>>

\* FileHandle::is_valid
is_valid(t, h) ==
    /\ h \in LiveOf(t)
    /\ op' = Result(t, "is_valid", <<>>, 0, handles[h], "Bool",
                    IF handles[h].val # NULL THEN 1 ELSE 0, <<>>, NoCall)
    /\ UNCHANGED <<handles, created, calls, pending, closedToks, own>>

\* FileHandle deriving Copy: the old binding stays usable next to the new one
MoveHandle_copy(t, h) ==
    /\ h \in LiveOf(t)
    /\ Len(handles) < MaxHandles
    /\ handles' = Append(handles, handles[h])
    /\ op' = Result(t, "move", <<>>, 0, handles[h], "Handle", handles[h].val, <<>>, NoCall)
    /\ UNCHANGED <<created, calls, pending, closedToks, own>>

\* FileHandle has no Copy or Clone: binding a handle to a new name moves it
MoveHandle(t, h) ==
    /\ h \in LiveOf(t)
    /\ handles' = [handles EXCEPT ![h] = handles[h]]
    /\ op' = Result(t, "move", <<>>, 0, handles[h], "Handle", handles[h].val, <<>>, NoCall)
    /\ UNCHANGED <<created, calls, pending, closedToks, own>>

\* FileHandle has no Drop: a handle going out of scope calls nothing
DropHandle(t, h) ==
    /\ h \in LiveOf(t)
    /\ handles' = Remove(handles, h)
    /\ op' = Result(t, "drop", <<>>, 0, handles[h], "None", 0, <<>>, NoCall)
    /\ UNCHANGED <<created, calls, pending, closedToks, own>>

----------------------------------------------------------------------------
\* The wrappers

\* the Err(Box::new(e)) return of dlopen and dlsym
ConvError(t, name, str, flags, h) ==
    /\ op' = Result(t, name, str, flags, h, "NulError", 0, <<>>, NoCall)
    /\ UNCHANGED <<handles, created, calls, pending, closedToks, own>>

\* _dlopen(fname, flags) returning ret, wrapped in a FileHandle and returned as Ok
OpenCall(t, filename, flags, fname) ==
    /\ Budget
    /\ created < MaxHandles
    /\ \E ret \in Ptrs \cup {NULL} : \E slot \in SlotAfter(ret = NULL) :
        /\ calls' = calls + 1
        /\ pending' = slot
        /\ own' = OwnAfter(t, ret = NULL, slot)
        /\ created' = created + 1
        /\ handles' = Append(handles, Binding(created + 1, ret, calls + 1, ret, t))
        /\ op' = Result(t, "dlopen", filename, flags,
                        Binding(created + 1, ret, calls + 1, ret, t), "Handle", ret, <<>>,
                        Call("dlopen", NULL, fname, flags, ret, NullStr))
        /\ UNCHANGED closedToks

\* dlopen without the empty-name case: "" goes through CString::new
dlopen_noempty(t, filename, flags) ==
    LET c == CString_new(filename)
    IN  IF ~c.ok
        THEN ConvError(t, "dlopen", filename, flags, NoHandle)
        ELSE OpenCall(t, filename, flags, CStrPtr(c.value))

\* dlopen turning a null native result into an error return
dlopen_nullerr(t, filename, flags) ==
    LET c == CString_new(filename)
        fname == IF filename = <<>> THEN NullStr ELSE CStrPtr(c.value)
    IN  IF filename # <<>> /\ ~c.ok
        THEN ConvError(t, "dlopen", filename, flags, NoHandle)
        ELSE \/ /\ OpenCall(t, filename, flags, fname)
                /\ op'.val # NULL
             \/ /\ Budget
                /\ \E slot \in ErrMsgs :
                    /\ calls' = calls + 1
                    /\ pending' = slot
                    /\ own' = OwnAfter(t, TRUE, slot)
                    /\ op' = Result(t, "dlopen", filename, flags, NoHandle, "NativeError",
                                    NULL, <<>>,
                                    Call("dlopen", NULL, fname, flags, NULL, NullStr))
                    /\ UNCHANGED <<handles, created, closedToks>>

dlopen(t, filename, flags) ==
    IF filename = <<>>
    THEN OpenCall(t, filename, flags, NullStr)
    ELSE LET c == CString_new(filename)
         IN  IF ~c.ok
             THEN ConvError(t, "dlopen", filename, flags, NoHandle)
             ELSE OpenCall(t, filename, flags, CStrPtr(c.value))

\* dlclose taking the handle by reference: the caller keeps it
dlclose_byref(t, h) ==
    /\ h \in LiveOf(t)
    /\ Budget
    /\ \E ret \in Statuses : \E slot \in SlotAfter(ret # 0) :
        /\ calls' = calls + 1
        /\ pending' = slot
        /\ own' = OwnAfter(t, ret # 0, slot)
        /\ closedToks' = closedToks \cup {handles[h].tok}
        /\ op' = Result(t, "dlclose", <<>>, 0, handles[h], "Int", ret, <<>>,
                        Call("dlclose", handles[h].val, NullStr, 0, ret, NullStr))
        /\ UNCHANGED <<handles, created>>

\* dlclose that reports every failure as -1
dlclose_normalised(t, h) ==
    /\ h \in LiveOf(t)
    /\ Budget
    /\ \E ret \in Statuses : \E slot \in SlotAfter(ret # 0) :
        /\ calls' = calls + 1
        /\ pending' = slot
        /\ own' = OwnAfter(t, ret # 0, slot)
        /\ closedToks' = closedToks \cup {handles[h].tok}
        /\ handles' = Remove(handles, h)
        /\ op' = Result(t, "dlclose", <<>>, 0, handles[h], "Int",
                        IF ret = 0 THEN 0 ELSE 0 - 1, <<>>,
                        Call("dlclose", handles[h].val, NullStr, 0, ret, NullStr))
        /\ UNCHANGED created

dlclose(t, h) ==
    /\ h \in LiveOf(t)
    /\ Budget
    /\ \E ret \in Statuses : \E slot \in SlotAfter(ret # 0) :
        /\ calls' = calls + 1
        /\ pending' = slot
        /\ own' = OwnAfter(t, ret # 0, slot)
        /\ closedToks' = closedToks \cup {handles[h].tok}
        /\ handles' = Remove(handles, h)
        /\ op' = Result(t, "dlclose", <<>>, 0, handles[h], "Int", ret, <<>>,
                        Call("dlclose", handles[h].val, NullStr, 0, ret, NullStr))
        /\ UNCHANGED created

\* dlsym cutting the name at its first null byte instead of refusing it
dlsym_truncating(t, h, symbol) ==
    /\ h \in LiveOf(t)
    /\ Budget
    /\ \E ret \in Ptrs \cup {NULL} :
       \E failed \in (IF ret = NULL THEN BOOLEAN ELSE {FALSE}) :
       \E slot \in SlotAfter(failed) :
        /\ calls' = calls + 1
        /\ pending' = slot
        /\ own' = OwnAfter(t, failed, slot)
        /\ op' = Result(t, "dlsym", symbol, 0, handles[h], "Ok", ret, <<>>,
                        Call("dlsym", handles[h].val, CStrPtr(Append(UpToNul(symbol), 0)),
                             0, ret, NullStr))
        /\ UNCHANGED <<handles, created, closedToks>>

\* dlsym answering for an invalid handle itself, without the native lookup
dlsym_checked(t, h, symbol) ==
    /\ h \in LiveOf(t)
    /\ LET c == CString_new(symbol)
       IN  IF ~c.ok
           THEN ConvError(t, "dlsym", symbol, 0, handles[h])
           ELSE IF handles[h].val = NULL
           THEN /\ op' = Result(t, "dlsym", symbol, 0, handles[h], "Ok", NULL, <<>>, NoCall)
                /\ UNCHANGED <<handles, created, calls, pending, closedToks, own>>
           ELSE /\ Budget
                /\ \E ret \in Ptrs \cup {NULL} :
                   \E failed \in (IF ret = NULL THEN BOOLEAN ELSE {FALSE}) :
                   \E slot \in SlotAfter(failed) :
                    /\ calls' = calls + 1
                    /\ pending' = slot
                    /\ own' = OwnAfter(t, failed, slot)
                    /\ op' = Result(t, "dlsym", symbol, 0, handles[h], "Ok", ret, <<>>,
                                    Call("dlsym", handles[h].val, CStrPtr(c.value), 0, ret, NullStr))
                    /\ UNCHANGED <<handles, created, closedToks>>

dlsym(t, h, symbol) ==
    /\ h \in LiveOf(t)
    /\ LET c == CString_new(symbol)
       IN  IF ~c.ok
           THEN ConvError(t, "dlsym", symbol, 0, handles[h])
           ELSE /\ Budget
                /\ \E ret \in Ptrs \cup {NULL} :
                   \E failed \in (IF ret = NULL THEN BOOLEAN ELSE {FALSE}) :
                   \E slot \in SlotAfter(failed) :
                    /\ calls' = calls + 1
                    /\ pending' = slot
                    /\ own' = OwnAfter(t, failed, slot)
                    /\ op' = Result(t, "dlsym", symbol, 0, handles[h], "Ok", ret, <<>>,
                                    Call("dlsym", handles[h].val, CStrPtr(c.value), 0, ret, NullStr))
                    /\ UNCHANGED <<handles, created, closedToks>>

\* dlerror converting without validation
dlerror_unchecked(t) ==
    /\ Budget
    /\ LET message == pending
       IN  /\ calls' = calls + 1
           /\ pending' = NullStr
           /\ own' = OwnAfter(t, TRUE, NullStr)
           /\ op' = IF message.null
                    THEN Result(t, "dlerror", <<>>, 0, NoHandle, "OkNone", 0, <<>>,
                                Call("dlerror", NULL, NullStr, 0, 0, message))
                    ELSE Result(t, "dlerror", <<>>, 0, NoHandle, "OkSome", 0,
                                CStr_from_ptr(message),
                                Call("dlerror", NULL, NullStr, 0, 0, message))
           /\ UNCHANGED <<handles, created, closedToks>>

\* dlerror querying twice: once for the null test, once for the text
dlerror_twice(t) ==
    /\ Budget
    /\ LET first == pending
           message == NullStr
       IN  /\ calls' = calls + 2
           /\ pending' = NullStr
           /\ own' = OwnAfter(t, TRUE, NullStr)
           /\ op' = Result(t, "dlerror", <<>>, 0, NoHandle, "OkNone", 0, <<>>,
                           Call("dlerror", NULL, NullStr, 0, 0, first)
                           \o Call("dlerror", NULL, NullStr, 0, 0, message))
           /\ UNCHANGED <<handles, created, closedToks>>

dlerror(t) ==
    /\ Budget
    /\ LET message == pending
       IN  /\ calls' = calls + 1
           /\ pending' = NullStr
           /\ own' = OwnAfter(t, TRUE, NullStr)
           /\ op' = IF message.null
                    THEN Result(t, "dlerror", <<>>, 0, NoHandle, "OkNone", 0, <<>>,
                                Call("dlerror", NULL, NullStr, 0, 0, message))
                    ELSE IF Utf8Valid(CStr_from_ptr(message))
                    THEN Result(t, "dlerror", <<>>, 0, NoHandle, "OkSome", 0,
                                CStr_from_ptr(message),
                                Call("dlerror", NULL, NullStr, 0, 0, message))
                    ELSE Result(t, "dlerror", <<>>, 0, NoHandle, "Utf8Error", 0, <<>>,
                                Call("dlerror", NULL, NullStr, 0, 0, message))
           /\ UNCHANGED <<handles, created, closedToks>>

----------------------------------------------------------------------------

\* A single caller thread using the whole interface
Callers == {1}

Next ==
    \/ \E t \in Callers : invalid(t)
    \/ \E t \in Callers : \E h \in 1..MaxHandles : is_valid(t, h)
    \/ \E t \in Callers : \E h \in 1..MaxHandles : MoveHandle(t, h)
    \/ \E t \in Callers : \E h \in 1..MaxHandles : DropHandle(t, h)
    \/ \E t \in Callers : \E f \in StrInputs : \E fl \in FlagValues : dlopen(t, f, fl)
    \/ \E t \in Callers : \E h \in 1..MaxHandles : dlclose(t, h)
    \/ \E t \in Callers : \E h \in 1..MaxHandles : \E s \in StrInputs : dlsym(t, h, s)
    \/ \E t \in Callers : dlerror(t)

Spec == Init /\ [][Next]_vars

\* Several threads calling the wrappers with no synchronisation between them
LibName == <<108>>
SymName == <<108, 105>>

NextMT ==
    \/ \E t \in Threads : dlopen(t, LibName, RTLD_NOW)
    \/ \E t \in Threads : \E h \in 1..MaxHandles : dlsym(t, h, SymName)
    \/ \E t \in Threads : \E h \in 1..MaxHandles : dlclose(t, h)
    \/ \E t \in Threads : dlerror(t)

SpecMT == Init /\ [][NextMT]_vars

----------------------------------------------------------------------------
\* Properties

IsOp(name) == op.name = name
OneCall(o, fn) == Len(o.ncalls) = 1 /\ o.ncalls[1].fn = fn
StillLive(b) == \E i \in Idx : handles[i] = b

\* UTF-8 stated from the encoding side: a byte string is valid text iff it is
\* the encoding of some sequence of code points
CodePoints == {40, 101, 233}
EncodeChar(c) ==
    IF c < 128 THEN <<c>> ELSE <<192 + (c \div 64), 128 + (c % 64)>>
Texts == {<<>>} \cup {<<c>> : c \in CodePoints}
            \cup {<<c, d>> : c \in CodePoints, d \in CodePoints}
RECURSIVE EncodeUtf8(_)
EncodeUtf8(txt) ==
    IF txt = <<>> THEN <<>> ELSE EncodeChar(Head(txt)) \o EncodeUtf8(Tail(txt))
IsText(b) == \E txt \in Texts : EncodeUtf8(txt) = b

\* C1: dlopen with a path, or dlsym with a symbol name, that contains a null
\* byte returns the conversion error and makes no native call: the call
\* counters and the pending last-error state are the same after the call as
\* before it, whatever the flags and the handle.
C1_NulInputNoNativeCall ==
    [][(op'.name \in {"dlopen", "dlsym"} /\ HasNul(op'.str))
        => /\ op'.res = "NulError"
           /\ op'.ncalls = NoCall
           /\ calls' = calls
           /\ pending' = pending
           /\ handles' = handles]_vars

C1_Witness ==
    /\ IsOp("dlsym") /\ HasNul(op.str) /\ op.res = "NulError"
    /\ calls > 0

\* C2: dlopen with the empty path makes exactly one native open call, with the
\* null pointer as file name and the caller's flags unchanged, and returns
\* Ok(handle), for every flags value.
C2_EmptyPathNullFilename ==
    (IsOp("dlopen") /\ op.str = <<>>)
        => /\ op.res = "Handle"
           /\ OneCall(op, "dlopen")
           /\ op.ncalls[1].str = NullStr
           /\ op.ncalls[1].flags = op.flags
           /\ op.h.val = op.ncalls[1].ret

C2_Witness ==
    /\ IsOp("dlopen") /\ op.str = <<>> /\ op.res = "Handle"
    /\ op.flags = Unrecognised

\* C3: dlopen with a non-empty path free of null bytes makes exactly one native
\* open call with the converted path and the unchanged flags and returns
\* Ok(handle) wrapping what the native call returned; a null native result
\* comes back as Ok(handle) with is_valid() false, never as an error.
C3_OpenWrapsNativeResult ==
    (IsOp("dlopen") /\ op.str # <<>> /\ ~HasNul(op.str))
        => /\ op.res = "Handle"
           /\ OneCall(op, "dlopen")
           /\ op.ncalls[1].str = CStrPtr(op.str \o <<0>>)
           /\ op.ncalls[1].flags = op.flags
           /\ op.h.val = op.ncalls[1].ret
           /\ StillLive(op.h)

C3_Witness ==
    /\ IsOp("dlopen") /\ op.str # <<>> /\ op.res = "Handle"
    /\ OneCall(op, "dlopen") /\ op.ncalls[1].ret = NULL /\ op.h.val = NULL

\* C4: dlclose passes the handle's wrapped value to native close exactly once
\* and returns the native status unchanged, zero or not; no other operation
\* calls native close, and dropping a handle calls nothing.
C4_CloseOnceStatusPassedThrough ==
    [][/\ (op'.name = "dlclose")
            => /\ calls' = calls + 1
               /\ Len(op'.ncalls) = 1 /\ op'.ncalls[1].fn = "dlclose"
               /\ op'.ncalls[1].ptr = op'.h.val
               /\ op'.val = op'.ncalls[1].ret
               /\ \E i \in Idx : handles[i] = op'.h
       /\ (\E k \in 1..Len(op'.ncalls) : op'.ncalls[k].fn = "dlclose") => (op'.name = "dlclose")
       /\ (calls' # calls) => (op'.ncalls # NoCall)
       /\ (op'.name = "drop") => (calls' = calls /\ op'.ncalls = NoCall)]_vars

C4_Witness ==
    /\ IsOp("dlclose") /\ op.val = 1 /\ op.h.val # NULL
    /\ calls = 2

\* C5: every live handle wraps null or the value of exactly one native open call
\* that no dlclose has consumed; so a handle passed to dlclose is not live any
\* more and is passed neither to native close a second time nor to native
\* symbol lookup afterwards.
C5_LiveHandleFromOneUnclosedOpen ==
    /\ \A i \in Idx :
        /\ handles[i].tok \notin closedToks
        /\ \/ handles[i].val = NULL
           \/ /\ handles[i].origin \in 1..calls
              /\ handles[i].val = handles[i].nret
              /\ \A j \in Idx : j # i => handles[j].origin # handles[i].origin
    /\ IsOp("dlclose") => (op.h.tok \in closedToks /\ ~StillLive(op.h))
    /\ (IsOp("dlsym") /\ op.res = "Ok") => op.h.tok \notin closedToks

C5_Witness ==
    /\ closedToks # {}
    /\ \E i \in Idx : handles[i].val # NULL
    /\ IsOp("dlsym") /\ op.res = "Ok"

\* C6 as claimed: no two live handles wrap the same non-null native value.
C6_NoTwoLiveHandlesShareValue ==
    \A i \in Idx : \A j \in Idx :
        (i # j /\ handles[i].val # NULL) => handles[i].val # handles[j].val

\* C6 amended: no two live handles stem from the same native open call (each
\* live handle is its own token with its own open call), although the native
\* loader may hand the same value to two open calls.
C6_NoTwoLiveHandlesShareOpenCall ==
    \A i \in Idx : \A j \in Idx :
        i # j => /\ handles[i].tok # handles[j].tok
                 /\ (handles[i].origin # 0 => handles[i].origin # handles[j].origin)

C6_Witness ==
    \E i \in Idx : \E j \in Idx :
        /\ i # j
        /\ handles[i].val # NULL
        /\ handles[i].val = handles[j].val
        /\ handles[i].origin # handles[j].origin

\* C7: dlsym with a symbol name free of null bytes makes exactly one native
\* lookup with the handle's wrapped value, valid or not, and the converted name
\* and returns Ok(p) with p the native result, null included; the handle is
\* unchanged and still live.
C7_SymPassesHandleAndResult ==
    (IsOp("dlsym") /\ ~HasNul(op.str))
        => /\ op.res = "Ok"
           /\ OneCall(op, "dlsym")
           /\ op.ncalls[1].ptr = op.h.val
           /\ op.ncalls[1].str = CStrPtr(op.str \o <<0>>)
           /\ op.val = op.ncalls[1].ret
           /\ StillLive(op.h)

C7_Witness ==
    /\ IsOp("dlsym") /\ op.res = "Ok"
    /\ op.h.val = NULL
    /\ OneCall(op, "dlsym") /\ op.ncalls[1].ret # NULL

\* C8: dlerror makes exactly one native last-error call; it returns Ok(None)
\* iff that call returned null, Ok(Some(text)) with the native bytes as text
\* when they are validly encoded, and the decode error when they are not.
C8_LastErrorDecodes ==
    IsOp("dlerror")
        => /\ OneCall(op, "dlerror")
           /\ (op.res = "OkNone") <=> op.ncalls[1].rstr.null
           /\ op.res \in {"OkNone", "OkSome", "Utf8Error"}
           /\ (op.res = "OkSome")
                => /\ op.ncalls[1].rstr.bytes = op.txt \o <<0>>
                   /\ IsText(op.txt)
           /\ (op.res = "Utf8Error")
                => \A b \in Texts : op.ncalls[1].rstr.bytes # EncodeUtf8(b) \o <<0>>

C8_Witness ==
    /\ IsOp("dlerror") /\ op.res = "Utf8Error"
    /\ OneCall(op, "dlerror") /\ ~op.ncalls[1].rstr.null

\* C9: is_valid answers true iff the wrapped value is non-null and changes
\* nothing; a handle from invalid() is not valid and invalid() makes no native
\* call; a handle from dlopen is valid exactly when the native open call
\* returned non-null.
C9_IsValidIffNonNull ==
    [][/\ (op'.name = "is_valid")
            => /\ (op'.val = 1) <=> (op'.h.val # NULL)
               /\ op'.val \in {0, 1}
               /\ (op'.h.origin = 0) => (op'.val = 0)
               /\ (op'.h.origin # 0) => ((op'.val = 1) <=> (op'.h.nret # NULL))
               /\ \E i \in Idx : handles[i] = op'.h
               /\ op'.ncalls = NoCall
               /\ UNCHANGED <<handles, calls, pending>>
       /\ (op'.name = "invalid")
            => /\ op'.h.val = NULL /\ op'.h.origin = 0
               /\ op'.ncalls = NoCall
               /\ UNCHANGED <<calls, pending>>]_vars

C9_Witness ==
    /\ IsOp("is_valid") /\ op.val = 1 /\ op.h.origin # 0
    /\ \E i \in Idx : handles[i].origin = 0

====
